---- MODULE Spec2Model ----
(***************************************************************************)
(* Model of the search query front end of OpenArchiver (QueryParser.ts):   *)
(* tokenize -> ExpressionParser -> filterExpressionToMeiliString.          *)
(*                                                                         *)
(* Strings are TLA+ strings; a character is a string of length one.  The   *)
(* parser cursor `pos` is 0-based as in the source, so the token under the *)
(* cursor is tokens[pos + 1].                                              *)
(***************************************************************************)
EXTENDS Integers, Sequences, FiniteSets, TLC

VARIABLES
    input,              \* the raw query string given to parseSearchQuery
    pc,                 \* position in parseSearchQuery / its caller
    tokens,             \* ExpressionParser.tokens
    pos,                \* ExpressionParser.pos
    keywordParts,       \* ExpressionParser.keywordParts
    allFilters,         \* ExpressionParser.allFilters
    filterExpressions,  \* the local list of ExpressionParser.parse
    result,             \* the ParsedQuery returned by parseSearchQuery
    filterString,       \* the caller's compiled filter string
    filterList,         \* the argument of a direct call of filtersToMeiliString
    consumed,           \* history: the cursor values at which advance() took a token
    searchParamsFilter  \* searchParams.filter of SearchService

vars == <<input, pc, tokens, pos, keywordParts, allFilters, filterExpressions,
          result, filterString, filterList, consumed, searchParamsFilter>>

(***************************************************************************)
(* Bounds of the model.                                                    *)
(***************************************************************************)
\* longest query built from the core lexemes
MaxToks == 4
\* longest query built from the field-resolver lexemes
MaxRich == 2
\* largest expression shape (leaves and operators) written out as a query
MaxNodes == 6
\* longest filter list given to filtersToMeiliString directly
MaxList == 2

(***************************************************************************)
(* Characters and strings.                                                 *)
(***************************************************************************)
\* the character at index i (1-based), "" outside the string
Ch(s, i) == IF i >= 1 /\ i <= Len(s) THEN SubSeq(s, i, i) ELSE ""

UpperStr == "ABCDEFGHIJKLMNOPQRSTUVWXYZ"
LowerStr == "abcdefghijklmnopqrstuvwxyz"
DigitStr == "0123456789"

CharsOf(s) == {Ch(s, i) : i \in 1..Len(s)}

\* \w of the token regex
UpperChars == CharsOf(UpperStr)
WordChars == UpperChars \cup CharsOf(LowerStr) \cup CharsOf(DigitStr) \cup {"_"}

\* \s of the token regex (the white space the model's inputs use)
SpaceChars == {" ", "\t", "\n"}

\* [^\s()] of the token regex
\* mutant of IsBareChar: parentheses are not excluded
IsBareChar_WithParens(c) == c \notin SpaceChars

IsBareChar(c) == c \notin SpaceChars /\ c \notin {"(", ")"}

LowerChar(c) ==
    IF c \in UpperChars
    THEN Ch(LowerStr, CHOOSE i \in 1..Len(UpperStr) : Ch(UpperStr, i) = c)
    ELSE c

RECURSIVE toLowerCase(_)
toLowerCase(s) ==
    IF s = "" THEN "" ELSE LowerChar(Head(s)) \o toLowerCase(Tail(s))

\* String.prototype.trim() = '' : the string holds white space only
IsBlank(s) == \A i \in 1..Len(s) : Ch(s, i) \in SpaceChars

\* Array.prototype.join
RECURSIVE join(_, _)
join(parts, sep) ==
    IF Len(parts) = 0 THEN ""
    ELSE IF Len(parts) = 1 THEN parts[1]
    ELSE parts[1] \o sep \o join(Tail(parts), sep)

(***************************************************************************)
(* Tokenizer.                                                              *)
(***************************************************************************)
\* last index of the longest run of characters in `class` starting at p
\* (p - 1 when the character at p is not in the class)
RECURSIVE RunEnd(_, _, _)
RunEnd(s, p, class) ==
    IF p <= Len(s) /\ Ch(s, p) \in class THEN RunEnd(s, p + 1, class) ELSE p - 1

RECURSIVE BareRunEnd(_, _)
BareRunEnd(s, p) ==
    IF p <= Len(s) /\ IsBareChar(Ch(s, p)) THEN BareRunEnd(s, p + 1) ELSE p - 1

\* index of the first double quote at or after p, 0 when there is none
RECURSIVE NextQuote(_, _)
NextQuote(s, p) ==
    IF p > Len(s) THEN 0
    ELSE IF Ch(s, p) = "\"" THEN p
    ELSE NextQuote(s, p + 1)

NoMatch == [matched |-> FALSE]

\* (\w+):"([^"]*)"
MatchQuotedField(s, p) ==
    LET w == RunEnd(s, p, WordChars)
        q == NextQuote(s, w + 3)
    IN  IF w >= p /\ Ch(s, w + 1) = ":" /\ Ch(s, w + 2) = "\"" /\ q > 0
        THEN [matched |-> TRUE, last |-> q,
              token |-> [type |-> "field", field |-> SubSeq(s, p, w),
                         value |-> SubSeq(s, w + 3, q - 1)]]
        ELSE NoMatch

\* \(|\)
MatchParen(s, p) ==
    IF Ch(s, p) = "(" THEN [matched |-> TRUE, last |-> p, token |-> [type |-> "lparen"]]
    ELSE IF Ch(s, p) = ")" THEN [matched |-> TRUE, last |-> p, token |-> [type |-> "rparen"]]
    ELSE NoMatch

\* "([^"]*)"
MatchQuoted(s, p) ==
    LET q == NextQuote(s, p + 1)
    IN  IF Ch(s, p) = "\"" /\ q > 0
        THEN [matched |-> TRUE, last |-> q,
              token |-> [type |-> "quoted", value |-> SubSeq(s, p + 1, q - 1)]]
        ELSE NoMatch

\* (\w+):([^\s()]+)
MatchField(s, p) ==
    LET w == RunEnd(s, p, WordChars)
        v == BareRunEnd(s, w + 2)
    IN  IF w >= p /\ Ch(s, w + 1) = ":" /\ v >= w + 2
        THEN [matched |-> TRUE, last |-> v,
              token |-> [type |-> "field", field |-> SubSeq(s, p, w),
                         value |-> SubSeq(s, w + 2, v)]]
        ELSE NoMatch

BOOLEAN_OPERATORS == {"and", "or", "not"}

\* mutant of isBooleanOperator: the word is compared as typed
isBooleanOperator_CaseSensitive(word) == word \in BOOLEAN_OPERATORS

\* BOOLEAN_OPERATORS.has(word.toLowerCase())
isBooleanOperator(word) == toLowerCase(word) \in BOOLEAN_OPERATORS

\* ([^\s()]+), then the bare-word branch of tokenize
MatchBare(s, p) ==
    LET v == BareRunEnd(s, p)
        word == SubSeq(s, p, v)
    IN  IF v >= p
        THEN [matched |-> TRUE, last |-> v,
              token |-> IF isBooleanOperator(word)
                        THEN [type |-> toLowerCase(word)]
                        ELSE [type |-> "keyword", value |-> word]]
        ELSE NoMatch

\* the alternatives of tokenRegex tried in order at position p
tokenRegex(s, p) ==
    LET m1 == MatchQuotedField(s, p)
        m2 == MatchParen(s, p)
        m3 == MatchQuoted(s, p)
        m4 == MatchField(s, p)
        m5 == MatchBare(s, p)
    IN  IF m1.matched THEN m1
        ELSE IF m2.matched THEN m2
        ELSE IF m3.matched THEN m3
        ELSE IF m4.matched THEN m4
        ELSE m5

\* the exec loop of tokenize from position p: a position with no match is skipped
RECURSIVE tokenizeFrom(_, _)
tokenizeFrom(s, p) ==
    IF p > Len(s) THEN <<>>
    ELSE LET m == tokenRegex(s, p)
         IN  IF m.matched THEN <<m.token>> \o tokenizeFrom(s, m.last + 1)
             ELSE tokenizeFrom(s, p + 1)

tokenize(s) == tokenizeFrom(s, 1)

(***************************************************************************)
(* Field resolver.                                                         *)
(***************************************************************************)
\* own keys of the FIELD_MAP object literal
FIELD_MAP ==
    [from |-> "from", to |-> "to", cc |-> "cc", bcc |-> "bcc",
     subject |-> "subject", in |-> "ingestionSourceId", tag |-> "tags",
     folder |-> "path", path |-> "path"]

\* FIELD_MAP[lowerField]: a property read on a plain object, which also finds
\* the lower-case property names the object inherits from Object.prototype.
\* The inherited values are rendered as a template string renders them.
FieldMapGet(lowerField) ==
    IF lowerField \in DOMAIN FIELD_MAP
    THEN [truthy |-> TRUE, field |-> FIELD_MAP[lowerField]]
    ELSE IF lowerField = "constructor"
    THEN [truthy |-> TRUE, field |-> "function Object() { [native code] }"]
    ELSE IF lowerField = "__proto__"
    THEN [truthy |-> TRUE, field |-> "[object Object]"]
    ELSE [truthy |-> FALSE]

\* new Date(value).getTime() on the date strings the model's inputs use:
\* an ISO calendar date gives its epoch milliseconds (UTC midnight), a string
\* that is no date gives NaN.
DateGetTime(value) ==
    IF value = "1970-01-02" THEN [isNaN |-> FALSE, time |-> 86400000]
    ELSE IF value = "1969-12-31" THEN [isNaN |-> FALSE, time |-> -86400000]
    ELSE IF value = "1970-01-03" THEN [isNaN |-> FALSE, time |-> 172800000]
    ELSE [isNaN |-> TRUE]

\* no filter (the null of fieldTokenToFilter)
NoFilter == [field |-> "null"]

Filter(f, op, v) == [field |-> f, operator |-> op, value |-> v]

\* the mapped-field step of fieldTokenToFilter
mappedFieldFilter(lowerField, value) ==
    LET mappedField == FieldMapGet(lowerField)
    IN  IF mappedField.truthy
        THEN Filter(mappedField.field, "eq", [string |-> value])
        ELSE NoFilter

fieldTokenToFilter(field, value) ==
    LET lowerField == toLowerCase(field)
    IN  IF lowerField = "has" /\ toLowerCase(value) = "attachment"
        THEN Filter("hasAttachments", "eq", [boolean |-> TRUE])
        ELSE IF lowerField = "before"
        THEN LET timestamp == DateGetTime(value)
             IN  IF ~timestamp.isNaN
                 THEN Filter("timestamp", "lt", [number |-> timestamp.time])
                 ELSE NoFilter
        ELSE IF lowerField = "after"
        THEN LET timestamp == DateGetTime(value)
             IN  IF ~timestamp.isNaN
                 THEN Filter("timestamp", "gte", [number |-> timestamp.time])
                 ELSE NoFilter
        ELSE mappedFieldFilter(lowerField, value)

(***************************************************************************)
(* Expression parser.  A routine takes the token list and the parser's     *)
(* fields ps = [pos, keywordParts, allFilters] and returns the expression  *)
(* it built (Null for null) with the fields as it leaves them.             *)
(***************************************************************************)
\* the null FilterExpression
Null == [type |-> "null"]

\* the null Token of peek()
NoToken == [type |-> "eof"]

Leaf(f) == [type |-> "filter", filter |-> f]
And(l, r) == [type |-> "and", left |-> l, right |-> r]
Or(l, r) == [type |-> "or", left |-> l, right |-> r]
Not(x) == [type |-> "not", operand |-> x]

NewParser == [pos |-> 0, keywordParts |-> <<>>, allFilters |-> <<>>, consumed |-> <<>>]

Ret(e, ps) == [expr |-> e, ps |-> ps]

peek(toks, ps) == IF ps.pos < Len(toks) THEN toks[ps.pos + 1] ELSE NoToken

\* mutant of advance: the cursor moves on by two
advance_ByTwo(toks, ps) ==
    IF ps.pos < Len(toks)
    THEN [ps EXCEPT !.pos = @ + 2, !.consumed = Append(@, ps.pos)]
    ELSE ps

\* this.tokens[this.pos++]; the history notes the cursor value of the token taken
advance(toks, ps) ==
    IF ps.pos < Len(toks)
    THEN [ps EXCEPT !.pos = @ + 1, !.consumed = Append(@, ps.pos)]
    ELSE ps

\* mutant of combineOr: without both operands the right one is always taken
combineOr_DropsLeft(left, right) ==
    IF left # Null /\ right # Null
    THEN [type |-> "or", left |-> left, right |-> right]
    ELSE right

\* mutant of combineAnd: the operands are stored the wrong way round
combineAnd_Swapped(left, right) ==
    IF left # Null /\ right # Null
    THEN [type |-> "and", left |-> right, right |-> left]
    ELSE IF right # Null THEN right
    ELSE left

\* if (left && right) left = {type, left, right}; else if (right) left = right;
combineOr(left, right) ==
    IF left # Null /\ right # Null THEN Or(left, right)
    ELSE IF right # Null THEN right
    ELSE left

combineAnd(left, right) ==
    IF left # Null /\ right # Null THEN And(left, right)
    ELSE IF right # Null THEN right
    ELSE left

\* mutant of negate: the null check of the operand is missing
negate_Unchecked(operand) == [type |-> "not", operand |-> operand]

\* the operand of NOT: a null operand gives null
negate(operand) == IF operand # Null THEN Not(operand) ELSE Null

\* mutant of primaryField: a resolved field is also collected as a keyword
primaryField_AlsoKeyword(toks, ps, token) ==
    LET filter == fieldTokenToFilter(token.field, token.value)
        ps1 == [advance(toks, ps) EXCEPT !.keywordParts =
                                             Append(@, token.field \o ":" \o token.value)]
    IN  IF filter # NoFilter
        THEN Ret(Leaf(filter), [ps1 EXCEPT !.allFilters = Append(@, filter)])
        ELSE Ret(Null, ps1)

\* the field branch of parsePrimary, after the token is read
primaryField(toks, ps, token) ==
    LET filter == fieldTokenToFilter(token.field, token.value)
        ps1 == advance(toks, ps)
    IN  IF filter # NoFilter
        THEN Ret(Leaf(filter), [ps1 EXCEPT !.allFilters = Append(@, filter)])
        ELSE Ret(Null, [ps1 EXCEPT !.keywordParts =
                                       Append(@, token.field \o ":" \o token.value)])

\* the keyword branch of parsePrimary
primaryKeyword(toks, ps, token) ==
    Ret(Null, [advance(toks, ps) EXCEPT !.keywordParts = Append(@, token.value)])

\* mutant of primaryQuoted: the phrase is collected without its quotes
primaryQuoted_Unwrapped(toks, ps, token) ==
    Ret(Null, [advance(toks, ps) EXCEPT !.keywordParts = Append(@, token.value)])

\* the quoted branch of parsePrimary
primaryQuoted(toks, ps, token) ==
    Ret(Null, [advance(toks, ps) EXCEPT !.keywordParts =
                                         Append(@, "\"" \o token.value \o "\"")])

\* mutant of primaryUnexpected: the unexpected token is not consumed
primaryUnexpected_NoAdvance(toks, ps) == Ret(Null, ps)

\* the last branch of parsePrimary: an unexpected token is skipped
primaryUnexpected(toks, ps) == Ret(Null, advance(toks, ps))

\* the lparen branch of parsePrimary: consume ) when it is there
closeGroup(toks, ps) ==
    IF peek(toks, ps).type = "rparen" THEN advance(toks, ps) ELSE ps

\* mutant of groupResult: a group that is not closed gives no expression
groupResult_Strict(toks, r) ==
    IF peek(toks, r.ps).type = "rparen"
    THEN Ret(r.expr, advance(toks, r.ps))
    ELSE Ret(Null, r.ps)

\* the end of the lparen branch of parsePrimary, r being the result of the
\* parseOrExpr call inside the parentheses
groupResult(toks, r) == Ret(r.expr, closeGroup(toks, r.ps))

\* mutant of startsPrimary: a field token does not start an implicit AND
startsPrimary_NoField(next) == next.type \in {"not", "lparen"}

\* does the implicit-AND branch of parseAndExpr take this token
startsPrimary(next) == next.type \in {"field", "not", "lparen"}

RECURSIVE parseOrExpr(_, _), parseOrLoop(_, _, _), parseAndExpr(_, _),
          parseAndLoop(_, _, _), parseNotExpr(_, _), parsePrimary(_, _)

parsePrimary(toks, ps) ==
    LET token == peek(toks, ps)
    IN  IF token = NoToken THEN Ret(Null, ps)
        ELSE IF token.type = "lparen"
        THEN groupResult(toks, parseOrExpr(toks, advance(toks, ps)))
        ELSE IF token.type = "field" THEN primaryField(toks, ps, token)
        ELSE IF token.type = "keyword" THEN primaryKeyword(toks, ps, token)
        ELSE IF token.type = "quoted" THEN primaryQuoted(toks, ps, token)
        ELSE primaryUnexpected(toks, ps)

parseNotExpr(toks, ps) ==
    IF peek(toks, ps).type = "not"
    THEN LET r == parseNotExpr(toks, advance(toks, ps))
         IN  Ret(negate(r.expr), r.ps)
    ELSE parsePrimary(toks, ps)

\* the while (true) loop of parseAndExpr, entered with `left`
parseAndLoop(toks, ps, left) ==
    LET next == peek(toks, ps)
    IN  IF next = NoToken THEN Ret(left, ps)
        ELSE IF next.type = "and"
        THEN LET r == parseNotExpr(toks, advance(toks, ps))
             IN  parseAndLoop(toks, r.ps, combineAnd(left, r.expr))
        ELSE IF startsPrimary(next)
        THEN LET r == parseNotExpr(toks, ps)
             IN  parseAndLoop(toks, r.ps, combineAnd(left, r.expr))
        ELSE Ret(left, ps)

parseAndExpr(toks, ps) ==
    LET l == parseNotExpr(toks, ps)
    IN  parseAndLoop(toks, l.ps, l.expr)

\* mutant of parseOrLoop: the right operand of OR is parsed as a not_expr, so
\* that AND no longer binds tighter than OR
parseOrLoop_FlatPrecedence(toks, ps, left) ==
    IF peek(toks, ps).type = "or"
    THEN LET r == parseNotExpr(toks, advance(toks, ps))
         IN  parseOrLoop(toks, r.ps, combineOr(left, r.expr))
    ELSE Ret(left, ps)

\* the while loop of parseOrExpr, entered with `left`
parseOrLoop(toks, ps, left) ==
    IF peek(toks, ps).type = "or"
    THEN LET r == parseAndExpr(toks, advance(toks, ps))
         IN  parseOrLoop(toks, r.ps, combineOr(left, r.expr))
    ELSE Ret(left, ps)

parseOrExpr(toks, ps) ==
    LET l == parseAndExpr(toks, ps)
    IN  parseOrLoop(toks, l.ps, l.expr)

tryParseExpression(toks, ps) == parseOrExpr(toks, ps)

\* filterExpressions.reduce((left, right) => ({type: 'and', left, right}))
\* mutant of reduceAnd: the fold nests to the right
RECURSIVE reduceAnd_RightFold(_, _)
reduceAnd_RightFold(acc, rest) ==
    IF Len(rest) = 0 THEN acc
    ELSE And(acc, reduceAnd_RightFold(Head(rest), Tail(rest)))

RECURSIVE reduceAnd(_, _)
reduceAnd(acc, rest) ==
    IF Len(rest) = 0 THEN acc ELSE reduceAnd(And(acc, Head(rest)), Tail(rest))

\* the combination step of ExpressionParser.parse
combinedExpression(exprs) ==
    IF Len(exprs) = 1 THEN exprs[1]
    ELSE IF Len(exprs) > 1 THEN reduceAnd(Head(exprs), Tail(exprs))
    ELSE Null

\* the value returned by ExpressionParser.parse, as parseSearchQuery repacks it
ParsedQuery(exprs, ps) ==
    [keywords |-> join(ps.keywordParts, " "),
     filters |-> ps.allFilters,
     filterExpression |-> combinedExpression(exprs)]

\* mutant of EmptyQuery: the keywords are a space
EmptyQuery_BlankKeywords == [keywords |-> " ", filters |-> <<>>, filterExpression |-> Null]

EmptyQuery == [keywords |-> "", filters |-> <<>>, filterExpression |-> Null]

\* the driver loop of ExpressionParser.parse run to its end
RECURSIVE parseLoop(_, _, _)
parseLoop(toks, ps, exprs) ==
    IF ps.pos < Len(toks)
    THEN LET r == tryParseExpression(toks, ps)
         IN  parseLoop(toks, r.ps, IF r.expr # Null THEN Append(exprs, r.expr) ELSE exprs)
    ELSE ParsedQuery(exprs, ps)

\* new ExpressionParser(toks).parse()
parse(toks) == parseLoop(toks, NewParser, <<>>)

parseSearchQuery(s) ==
    IF s = "" \/ IsBlank(s) THEN EmptyQuery ELSE parse(tokenize(s))

(***************************************************************************)
(* Filter compiler.                                                        *)
(***************************************************************************)
OPERATOR_MAP == [eq |-> "=", lt |-> "<", gt |-> ">", lte |-> "<=", gte |-> ">="]

\* the decimal text of an integer, as a template string renders it
RECURSIVE NumberToString(_)
NumberToString(n) ==
    IF n < 0 THEN "-" \o NumberToString(-n)
    ELSE IF n < 10 THEN Ch(DigitStr, n + 1)
    ELSE NumberToString(n \div 10) \o Ch(DigitStr, (n % 10) + 1)

\* mutant of escapeQuotes: the value is left as it is
escapeQuotes_None(s) == s

\* String(value).replace(/"/g, '\\"')
RECURSIVE escapeQuotes(_)
escapeQuotes(s) ==
    IF s = "" THEN ""
    ELSE (IF Head(s) = "\"" THEN "\\\"" ELSE Head(s)) \o escapeQuotes(Tail(s))

filterToMeiliString(filter) ==
    LET op == OPERATOR_MAP[filter.operator]
    IN  IF "boolean" \in DOMAIN filter.value
        THEN filter.field \o " " \o op \o " "
                 \o (IF filter.value.boolean THEN "true" ELSE "false")
        ELSE IF "number" \in DOMAIN filter.value
        THEN filter.field \o " " \o op \o " " \o NumberToString(filter.value.number)
        ELSE filter.field \o " " \o op \o " \"" \o escapeQuotes(filter.value.string) \o "\""

\* mutant of renderOr: the parentheses around an Or are missing
renderOr_NoParens(l, r) == l \o " OR " \o r

\* mutant of renderNot: the operand is not parenthesised
renderNot_Bare(x) == "NOT " \o x

\* the renderings of the composite nodes
\* mutant of renderAnd: the conjunction is parenthesised
renderAnd_Parenthesised(l, r) == "(" \o l \o " AND " \o r \o ")"

\* mutant of renderAnd: the operands are joined by OR
renderAnd_AsOr(l, r) == l \o " OR " \o r

renderAnd(l, r) == l \o " AND " \o r
renderOr(l, r) == "(" \o l \o " OR " \o r \o ")"
renderNot(x) == "NOT (" \o x \o ")"

RECURSIVE filterExpressionToMeiliString(_)
filterExpressionToMeiliString(expr) ==
    CASE expr.type = "filter" -> filterToMeiliString(expr.filter)
      [] expr.type = "and" ->
            renderAnd(filterExpressionToMeiliString(expr.left),
                      filterExpressionToMeiliString(expr.right))
      [] expr.type = "or" ->
            renderOr(filterExpressionToMeiliString(expr.left),
                     filterExpressionToMeiliString(expr.right))
      [] expr.type = "not" -> renderNot(filterExpressionToMeiliString(expr.operand))

RECURSIVE mapFilterToMeiliString(_)
mapFilterToMeiliString(filters) ==
    IF Len(filters) = 0 THEN <<>>
    ELSE <<filterToMeiliString(Head(filters))>> \o mapFilterToMeiliString(Tail(filters))

\* mutant of filtersToMeiliString: the renderings are joined by OR
filtersToMeiliString_OrJoined(filters) ==
    IF Len(filters) = 0 THEN "" ELSE join(mapFilterToMeiliString(filters), " OR ")

filtersToMeiliString(filters) ==
    IF Len(filters) = 0 THEN "" ELSE join(mapFilterToMeiliString(filters), " AND ")

(***************************************************************************)
(* The queries the model runs.                                             *)
(***************************************************************************)
\* lexemes that exercise the boolean grammar
CoreLexemes == {"from:a", "to:b", "x:d", "k", "AND", "OR", "NOT", "(", ")"}

\* lexemes that exercise the tokenizer's forms and the field resolver
RichLexemes ==
    {"has:attachment", "HAS:Attachment", "has:x", "before:1970-01-02", "before:zz",
     "after:1970-01-03", "after:zz", "x:\"d e\"", "subject:\"a b\"", "\"q p\"",
     "or", "Not", "in:s", "TAG:t", "folder:p", "path:P", "bcc:c", "y:z",
     "constructor:x", " ", "from:a", "k", "(", ")", "subject:a\"b",
     "before:1969-12-31"}

\* queries of the documentation and of the test suite, and queries that put
\* the operator words and the inherited property names in every token form
Examples ==
    {"(from:john OR to:john) AND has:attachment", "from:john or from:jane",
     "from:john OR from:jane", "from:a aNd NOT to:b", "from:a \"or\" to:b",
     "from:a or:x to:b", "from:a x:or to:b", "from:a and:\"not\" to:b",
     "from:a ORs to:b", "from:a and: to:b", "\t\n ", "__proto__:x",
     "Constructor:x from:a", "from:john invoice report",
     "subject:\"monthly report\" \"exact phrase\" foo:bar",
     "invoice (\"exact phrase\" or from:john) foo:bar",
     "(from:john OR to:john) AND NOT has:attachment", "(from:a OR x:d) k",
     "from:a k to:b k cc:c", "from:a OR to:b invoice NOT cc:c \"q\" from:a to:b",
     "from:john)", "(from:john", "x:\"a(b\" \"c)d\"", "\"a(b", "ab\"c(d\"",
     "k(k)k", "from:(a)", "NOT(from:a)to:b",
     "from:a invoice OR from:b", "from:a OR from:b",
     "NOT (from:a k to:b)", "cc:c (from:a x:d to:b)", "NOT (from:a OR) OR to:b",
     "NOT () to:b", "NOT (from:a OR to:b) cc:c", "NOT (from:a (to:b OR cc:c))",
     "from:a\\", "subject:a\\\"b", "from:\"a\\b\" to:b"}

SeqsUpTo(S, n) == UNION {[1..m -> S] : m \in 0..n}

\* well-formed boolean queries, written out from expression shapes of up to
\* MaxNodes nodes with parentheses only where the grammar needs them
LeafLexemes == {"from:a", "to:b", "cc:c"}

RECURSIVE ShapesOfSize(_)
ShapesOfSize(n) ==
    IF n = 1 THEN {[node |-> "leaf", lexeme |-> l] : l \in LeafLexemes}
    ELSE {[node |-> "not", operand |-> x] : x \in ShapesOfSize(n - 1)}
         \cup UNION {{[node |-> op, left |-> l, right |-> r] :
                         l \in ShapesOfSize(k), r \in ShapesOfSize(n - 1 - k),
                         op \in {"and", "or"}} : k \in 1..(n - 2)}

Shapes == UNION {ShapesOfSize(n) : n \in 1..MaxNodes}

RECURSIVE Unparse(_, _)
Unparse(t, andSep) ==
    LET group(x) == "(" \o Unparse(x, andSep) \o ")"
    IN  CASE t.node = "leaf" -> t.lexeme
          [] t.node = "not" ->
                "NOT " \o (IF t.operand.node \in {"leaf", "not"}
                           THEN Unparse(t.operand, andSep) ELSE group(t.operand))
          [] t.node = "and" ->
                (IF t.left.node = "or" THEN group(t.left) ELSE Unparse(t.left, andSep))
                    \o andSep
                    \o (IF t.right.node \in {"or", "and"} THEN group(t.right)
                        ELSE Unparse(t.right, andSep))
          [] t.node = "or" ->
                Unparse(t.left, andSep) \o " OR "
                    \o (IF t.right.node = "or" THEN group(t.right)
                        ELSE Unparse(t.right, andSep))

Inputs ==
    {join(q, " ") : q \in SeqsUpTo(CoreLexemes, MaxToks)}
        \cup {join(q, " ") : q \in SeqsUpTo(RichLexemes, MaxRich)}
        \cup {Unparse(t, andSep) : t \in Shapes, andSep \in {" AND ", " "}}
        \cup Examples

\* the filters a caller hands to filtersToMeiliString: every operator of
\* QueryFilterOperator and every type of value
FilterSamples ==
    {Filter("from", "eq", [string |-> "john"]),
     Filter("subject", "eq", [string |-> "say \"hello\""]),
     Filter("hasAttachments", "eq", [boolean |-> TRUE]),
     Filter("hasAttachments", "eq", [boolean |-> FALSE]),
     Filter("timestamp", "lt", [number |-> 1704067200]),
     Filter("timestamp", "gt", [number |-> 1000]),
     Filter("timestamp", "lte", [number |-> 0]),
     Filter("timestamp", "gte", [number |-> -5]),
     Filter("path", "eq", [string |-> "C:\\"])}

FilterLists == SeqsUpTo(FilterSamples, MaxList)

(***************************************************************************)
(* parseSearchQuery and its caller as a state machine.                     *)
(***************************************************************************)
\* the fields of the ExpressionParser object
parser ==
    [pos |-> pos, keywordParts |-> keywordParts, allFilters |-> allFilters,
     consumed |-> consumed]

\* before the call: nothing is parsed yet
Init ==
    /\ input = ""
    /\ pc = "idle"
    /\ tokens = <<>>
    /\ pos = 0
    /\ keywordParts = <<>>
    /\ allFilters = <<>>
    /\ filterExpressions = <<>>
    /\ result = EmptyQuery
    /\ filterString = ""
    /\ filterList = <<>>
    /\ consumed = <<>>
    /\ searchParamsFilter = ""

\* the caller hands a query string to parseSearchQuery
Call ==
    /\ pc = "idle"
    /\ \E s \in Inputs : input' = s
    /\ pc' = "start"
    /\ UNCHANGED <<tokens, pos, keywordParts, allFilters, filterExpressions, result,
                   filterString, filterList, consumed>>
    /\ UNCHANGED searchParamsFilter

\* parseSearchQuery: if (!input || !input.trim()) return the empty query
EarlyReturn ==
    /\ pc = "start"
    /\ input = "" \/ IsBlank(input)
    /\ result' = EmptyQuery
    /\ pc' = "returned"
    /\ UNCHANGED <<input, tokens, pos, keywordParts, allFilters, filterExpressions,
                   filterString, filterList, consumed>>
    /\ UNCHANGED searchParamsFilter

\* parseSearchQuery: tokenize(input), new ExpressionParser(tokens)
Construct ==
    /\ pc = "start"
    /\ ~(input = "" \/ IsBlank(input))
    /\ tokens' = tokenize(input)
    /\ pos' = NewParser.pos
    /\ keywordParts' = NewParser.keywordParts
    /\ allFilters' = NewParser.allFilters
    /\ filterExpressions' = <<>>
    /\ pc' = "parse"
    /\ consumed' = NewParser.consumed
    /\ UNCHANGED <<input, result, filterString, filterList>>
    /\ UNCHANGED searchParamsFilter

\* ExpressionParser.parse: one iteration of while (this.pos < this.tokens.length)
ParseIteration ==
    /\ pc = "parse"
    /\ pos < Len(tokens)
    /\ LET r == tryParseExpression(tokens, parser)
       IN  /\ pos' = r.ps.pos
           /\ keywordParts' = r.ps.keywordParts
           /\ allFilters' = r.ps.allFilters
           /\ consumed' = r.ps.consumed
           /\ filterExpressions' =
                  IF r.expr # Null THEN Append(filterExpressions, r.expr)
                  ELSE filterExpressions
    /\ UNCHANGED <<input, pc, tokens, result, filterString, filterList>>
    /\ UNCHANGED searchParamsFilter

\* ExpressionParser.parse: the loop ends, the expressions are combined and returned
ParseReturn ==
    /\ pc = "parse"
    /\ ~(pos < Len(tokens))
    /\ result' = ParsedQuery(filterExpressions, parser)
    /\ pc' = "returned"
    /\ UNCHANGED <<input, tokens, pos, keywordParts, allFilters, filterExpressions,
                   filterString, filterList, consumed>>
    /\ UNCHANGED searchParamsFilter

\* the caller: compile the expression when there is one
Compile ==
    /\ pc = "returned"
    /\ filterString' =
           IF result.filterExpression # Null
           THEN filterExpressionToMeiliString(result.filterExpression)
           ELSE ""
    /\ pc' = "done"
    /\ UNCHANGED <<input, tokens, pos, keywordParts, allFilters, filterExpressions,
                   result, filterList, consumed>>
    /\ UNCHANGED searchParamsFilter

\* a caller hands a filter list to filtersToMeiliString and gets the string
CallFiltersToMeiliString ==
    /\ pc = "idle"
    /\ \E fs \in FilterLists :
           /\ filterList' = fs
           /\ filterString' = filtersToMeiliString(fs)
    /\ pc' = "listed"
    /\ UNCHANGED <<input, tokens, pos, keywordParts, allFilters, filterExpressions,
                   result, consumed>>
    /\ UNCHANGED searchParamsFilter

\* the clauses searchEmailsAdvanced builds from the structured filters
StructuredParts ==
    {<<>>, <<"ingestionSourceId = \"s1\"", "(tags = \"t1\" OR tags = \"t2\")">>}

\* FilterBuilder.create(userId, 'archive', 'read').searchFilter: the empty
\* string stands for no restriction
SearchFilters == {"", "userId = \"u1\""}

\* if (searchFilter) append it with ` AND `, or use it alone
withSearchFilter(filter, searchFilter) ==
    IF searchFilter # ""
    THEN IF filter # "" THEN filter \o " AND " \o searchFilter ELSE searchFilter
    ELSE filter

\* SearchService.searchEmails called by the controller with the compiled
\* filterString
SearchEmails ==
    /\ pc = "done"
    /\ \E searchFilter \in SearchFilters :
           searchParamsFilter' = withSearchFilter(filterString, searchFilter)
    /\ pc' = "searched"
    /\ UNCHANGED <<input, tokens, pos, keywordParts, allFilters, filterExpressions,
                   result, filterString, filterList, consumed>>

\* SearchService.searchEmailsAdvanced: the structured clauses, then the
\* compiled expression if there is one, joined by ` AND `
SearchEmailsAdvanced ==
    /\ pc = "done"
    /\ \E structured \in StructuredParts, searchFilter \in SearchFilters :
           LET filterParts ==
                   IF result.filterExpression # Null
                   THEN Append(structured,
                               filterExpressionToMeiliString(result.filterExpression))
                   ELSE structured
           IN  searchParamsFilter' =
                   withSearchFilter(join(filterParts, " AND "), searchFilter)
    /\ pc' = "searchedAdvanced"
    /\ UNCHANGED <<input, tokens, pos, keywordParts, allFilters, filterExpressions,
                   result, filterString, filterList, consumed>>

\* the steps of one call of parseSearchQuery and of the compilation after it
Run == EarlyReturn \/ Construct \/ ParseIteration \/ ParseReturn \/ Compile

Next == Call \/ Run \/ CallFiltersToMeiliString \/ SearchEmails \/ SearchEmailsAdvanced

Spec == Init /\ [][Next]_vars

(***************************************************************************)
(* Vocabulary of the properties.                                           *)
(***************************************************************************)
\* parseSearchQuery has returned
Returned == pc \in {"returned", "done"}

\* the field resolver accepts the token
Resolves(tok) ==
    tok.type = "field" /\ fieldTokenToFilter(tok.field, tok.value) # NoFilter

\* the field resolver rejects the field token
Unresolved(tok) ==
    tok.type = "field" /\ fieldTokenToFilter(tok.field, tok.value) = NoFilter

IsOperator(tok) == tok.type \in {"and", "or", "not"}

\* the leaf filters of an expression, left to right
RECURSIVE Leaves(_)
Leaves(expr) ==
    CASE expr.type = "null" -> <<>>
      [] expr.type = "filter" -> <<expr.filter>>
      [] expr.type = "not" -> Leaves(expr.operand)
      [] OTHER -> Leaves(expr.left) \o Leaves(expr.right)

\* the filters of the tokens the resolver accepts, in stream order
RECURSIVE ResolvedFilters(_)
ResolvedFilters(toks) ==
    IF Len(toks) = 0 THEN <<>>
    ELSE (IF Resolves(Head(toks))
          THEN <<fieldTokenToFilter(Head(toks).field, Head(toks).value)>>
          ELSE <<>>) \o ResolvedFilters(Tail(toks))

RemoveAt(seq, i) == SubSeq(seq, 1, i - 1) \o SubSeq(seq, i + 1, Len(seq))

\* seq with x put after its i-th element
InsertAfter(seq, i, x) == SubSeq(seq, 1, i) \o <<x>> \o SubSeq(seq, i + 1, Len(seq))

(***************************************************************************)
(* C1: parseSearchQuery terminates and returns: at every head of the       *)
(* driver loop of ExpressionParser.parse where the cursor is below the     *)
(* token count, the or_expr invocation that the iteration makes leaves the *)
(* cursor strictly further on and not past the token count (so the         *)
(* distance to the end is a variant of the loop), and when the call has    *)
(* returned the cursor equals the token count.                             *)
(***************************************************************************)
C1_DriverTerminates ==
    /\ (pc = "parse" /\ pos < Len(tokens)) =>
           LET r == tryParseExpression(tokens, parser)
           IN  r.ps.pos > pos /\ r.ps.pos <= Len(tokens)
    /\ Returned => pos = Len(tokens)

\* the loop has ended after at least two iterations that each gave an expression
C1_Witness ==
    /\ pc = "returned"
    /\ Len(filterExpressions) >= 2
    /\ pos = Len(tokens)

(***************************************************************************)
(* C2: the returned filterExpression is null exactly when no Field token   *)
(* resolved to a filter, which is exactly when the filters list is empty;  *)
(* and the filter of every resolved Field token is a leaf of the           *)
(* expression, whatever was recovered from around it.                      *)
(***************************************************************************)
C2_NullIffNoFilter ==
    Returned =>
        /\ (result.filterExpression = Null)
               <=> (\A i \in 1..Len(tokens) : ~Resolves(tokens[i]))
        /\ (result.filterExpression = Null) <=> (result.filters = <<>>)
        /\ \A i \in 1..Len(tokens) :
               Resolves(tokens[i]) =>
                   \E j \in 1..Len(Leaves(result.filterExpression)) :
                       Leaves(result.filterExpression)[j]
                           = fieldTokenToFilter(tokens[i].field, tokens[i].value)

\* an expression was returned from a stream that ends in a dropped operator
\* and holds a parenthesis
C2_Witness ==
    /\ pc = "returned"
    /\ result.filterExpression # Null
    /\ Len(tokens) >= 3
    /\ IsOperator(tokens[Len(tokens)])
    /\ \E i \in 1..Len(tokens) : tokens[i].type \in {"lparen", "rparen"}

(***************************************************************************)
(* C3: the returned filters list is the sequence of the leaves of the      *)
(* returned expression read left to right, and is empty when the           *)
(* expression is null.                                                     *)
(***************************************************************************)
C3_FiltersAreLeaves ==
    Returned => result.filters = Leaves(result.filterExpression)

\* three leaves under an Or whose right operand is an And
C3_Witness ==
    /\ pc = "returned"
    /\ Len(result.filters) = 3
    /\ result.filterExpression.type = "or"
    /\ result.filterExpression.right.type = "and"
    /\ result.filters[1] # result.filters[2]

(***************************************************************************)
(* The tree the grammar of the source's comment gives a well-formed        *)
(* stream, defined by splitting rather than by a cursor:                   *)
(*   or_expr  := and_expr (OR and_expr)*          split at the last OR     *)
(*                                                outside parentheses      *)
(*   and_expr := not_expr ((AND|implicit) not_expr)*   cut into units      *)
(*   not_expr := NOT not_expr | primary                                    *)
(*   primary  := ( or_expr ) | field                                       *)
(* Ill stands for a stream that is not a well-formed expression.           *)
(***************************************************************************)
Ill == [type |-> "ill"]

\* nesting depth after the first i tokens (-1 once a parenthesis closes nothing)
RECURSIVE DepthAfter(_, _)
DepthAfter(toks, i) ==
    IF i = 0 THEN 0
    ELSE LET d == DepthAfter(toks, i - 1)
         IN  IF d < 0 THEN -1
             ELSE IF toks[i].type = "lparen" THEN d + 1
             ELSE IF toks[i].type = "rparen" THEN d - 1
             ELSE d

\* index of the ) that closes the ( at index i, 0 when there is none
MatchingParen(toks, i) ==
    LET closing == {j \in (i + 1)..Len(toks) :
                        /\ toks[j].type = "rparen"
                        /\ DepthAfter(SubSeq(toks, i, j), j - i + 1) = 0
                        /\ \A k \in 1..(j - i) : DepthAfter(SubSeq(toks, i, j), k) > 0}
    IN  IF closing = {} THEN 0 ELSE CHOOSE j \in closing : TRUE

\* indexes of the OR tokens outside every parenthesis
TopLevelOrs(toks) ==
    {i \in 1..Len(toks) : toks[i].type = "or" /\ DepthAfter(toks, i) = 0}

SetMax(S) == CHOOSE x \in S : \A y \in S : y <= x

\* number of NOT tokens the stream starts with
RECURSIVE LeadingNots(_)
LeadingNots(toks) ==
    IF Len(toks) > 0 /\ Head(toks).type = "not" THEN 1 + LeadingNots(Tail(toks)) ELSE 0

\* index of the last token of the not_expr the stream starts with, 0 when it
\* starts with none
UnitEnd(toks) ==
    LET k == LeadingNots(toks)
    IN  IF k + 1 > Len(toks) THEN 0
        ELSE IF toks[k + 1].type = "field" THEN k + 1
        ELSE IF toks[k + 1].type = "lparen" THEN MatchingParen(toks, k + 1)
        ELSE 0

GAnd(l, r) == IF l = Ill \/ r = Ill THEN Ill ELSE And(l, r)
GOr(l, r) == IF l = Ill \/ r = Ill THEN Ill ELSE Or(l, r)
GNot(x) == IF x = Ill THEN Ill ELSE Not(x)

RECURSIVE GrammarOr(_), GrammarAnd(_), GrammarAndRest(_, _), GrammarNot(_)

GrammarOr(toks) ==
    IF TopLevelOrs(toks) = {} THEN GrammarAnd(toks)
    ELSE LET k == SetMax(TopLevelOrs(toks))
         IN  GOr(GrammarOr(SubSeq(toks, 1, k - 1)),
                 GrammarAnd(SubSeq(toks, k + 1, Len(toks))))

GrammarAnd(toks) ==
    LET e == UnitEnd(toks)
    IN  IF e = 0 THEN Ill
        ELSE GrammarAndRest(GrammarNot(SubSeq(toks, 1, e)),
                            SubSeq(toks, e + 1, Len(toks)))

\* the not_exprs after the first one, each after an AND or after nothing
GrammarAndRest(left, rest) ==
    IF Len(rest) = 0 THEN left
    ELSE LET operand == IF Head(rest).type = "and" THEN Tail(rest) ELSE rest
             e == UnitEnd(operand)
         IN  IF e = 0 THEN Ill
             ELSE GrammarAndRest(GAnd(left, GrammarNot(SubSeq(operand, 1, e))),
                                 SubSeq(operand, e + 1, Len(operand)))

\* a single not_expr
GrammarNot(unit) ==
    IF Len(unit) = 0 THEN Ill
    ELSE IF Head(unit).type = "not" THEN GNot(GrammarNot(Tail(unit)))
    ELSE IF Head(unit).type = "field" /\ Len(unit) = 1
    THEN Leaf(fieldTokenToFilter(unit[1].field, unit[1].value))
    ELSE IF Head(unit).type = "lparen" /\ MatchingParen(unit, 1) = Len(unit)
    THEN GrammarOr(SubSeq(unit, 2, Len(unit) - 1))
    ELSE Ill

\* the stream holds resolvable Field tokens, operators and parentheses only
GrammarTokens(toks) ==
    \A i \in 1..Len(toks) :
        Resolves(toks[i]) \/ IsOperator(toks[i]) \/ toks[i].type \in {"lparen", "rparen"}

\* the stream is a well-formed expression of the grammar
WellFormed(toks) == GrammarTokens(toks) /\ GrammarOr(toks) # Ill

(***************************************************************************)
(* C4: for a stream of resolvable Field tokens, AND/OR/NOT and parentheses *)
(* that is a well-formed expression of the grammar, the returned           *)
(* expression is the tree of the grammar: OR loosest, AND (written or      *)
(* implicit) tighter, NOT tightest, a parenthesised group one operand.     *)
(***************************************************************************)
C4_GrammarTree ==
    (Returned /\ WellFormed(tokens)) => result.filterExpression = GrammarOr(tokens)

\* a NOT in front of a parenthesised Or, the whole under an And
C4_Witness ==
    /\ pc = "returned"
    /\ WellFormed(tokens)
    /\ result.filterExpression.type = "and"
    /\ result.filterExpression.left.type = "not"
    /\ result.filterExpression.left.operand.type = "or"

(***************************************************************************)
(* The text of the input that each token was made from (match[0] of the    *)
(* token regex), in token order.                                           *)
(***************************************************************************)
RECURSIVE TokenTextsFrom(_, _)
TokenTextsFrom(s, p) ==
    IF p > Len(s) THEN <<>>
    ELSE LET m == tokenRegex(s, p)
         IN  IF m.matched THEN <<SubSeq(s, p, m.last)>> \o TokenTextsFrom(s, m.last + 1)
             ELSE TokenTextsFrom(s, p + 1)

TokenTexts(s) == TokenTextsFrom(s, 1)

\* the token adds an entry to keywordParts
GivesKeyword(tok) == tok.type \in {"keyword", "quoted"} \/ Unresolved(tok)

\* the number of entries the first i tokens add to keywordParts
KeywordIndex(toks, i) == Cardinality({j \in 1..i : GivesKeyword(toks[j])})

(***************************************************************************)
(* C5: every field token that fails resolution is re-emitted into the      *)
(* keywords as text identical to the text of the token in the input, in    *)
(* the word:value form and in the word:"quoted value" form, and gives no   *)
(* filter.                                                                 *)
(***************************************************************************)
C5_VerbatimReemission ==
    Returned =>
        /\ \A i \in 1..Len(tokens) :
               Unresolved(tokens[i]) =>
                   /\ KeywordIndex(tokens, i) <= Len(keywordParts)
                   /\ keywordParts[KeywordIndex(tokens, i)] = TokenTexts(input)[i]
        /\ result.filters = ResolvedFilters(tokens)

(***************************************************************************)
(* Parenthesis matching on a token stream: a ) closes the nearest open (,  *)
(* and a ) met when no ( is open is stray.                                 *)
(***************************************************************************)
\* number of ( still open after the first i tokens
RECURSIVE OpenAfter(_, _)
OpenAfter(toks, i) ==
    IF i = 0 THEN 0
    ELSE LET d == OpenAfter(toks, i - 1)
         IN  IF toks[i].type = "lparen" THEN d + 1
             ELSE IF toks[i].type = "rparen" /\ d > 0 THEN d - 1
             ELSE d

\* indexes of the ) tokens with no corresponding open (
StrayRParens(toks) ==
    {i \in 1..Len(toks) : toks[i].type = "rparen" /\ OpenAfter(toks, i - 1) = 0}

\* indexes of the ( tokens that no ) closes
UnmatchedLParens(toks) ==
    {i \in 1..Len(toks) :
        /\ toks[i].type = "lparen"
        /\ \A j \in i..Len(toks) : OpenAfter(toks, j) > OpenAfter(toks, i - 1)}

(***************************************************************************)
(* C6: a ) with no corresponding open ( is skipped as if it were absent:   *)
(* the returned keywords, filters and expression equal those of the same   *)
(* stream with that token removed.                                         *)
(***************************************************************************)
C6_StrayParenAbsent ==
    Returned =>
        \A i \in StrayRParens(tokens) : parse(RemoveAt(tokens, i)) = result

(***************************************************************************)
(* C7: an unmatched ( loses nothing: the result of a stream with an        *)
(* unmatched ( equals the result of the same stream with a ) appended at   *)
(* its end, and every resolvable field after the ( is in filters and is a  *)
(* leaf of the expression.                                                 *)
(***************************************************************************)
C7_UnmatchedParen ==
    Returned =>
        \A i \in UnmatchedLParens(tokens) :
            /\ parse(Append(tokens, [type |-> "rparen"])) = result
            /\ \A j \in (i + 1)..Len(tokens) :
                   Resolves(tokens[j]) =>
                       LET f == fieldTokenToFilter(tokens[j].field, tokens[j].value)
                       IN  /\ \E k \in 1..Len(result.filters) : result.filters[k] = f
                           /\ \E k \in 1..Len(Leaves(result.filterExpression)) :
                                  Leaves(result.filterExpression)[k] = f

\* an unmatched ( followed by a resolvable field, a keyword and another
\* resolvable field
C7_Witness ==
    /\ pc = "returned"
    /\ \E i \in UnmatchedLParens(tokens) :
           /\ i + 3 <= Len(tokens)
           /\ Resolves(tokens[i + 1])
           /\ tokens[i + 2].type = "keyword"
           /\ Resolves(tokens[i + 3])
    /\ Len(result.filters) = 2

(***************************************************************************)
(* C8: a dangling boolean operator contributes nothing: a stream that ends *)
(* in AND, OR or NOT gives the result of the stream without that token,    *)
(* appending AND, OR or NOT to a stream leaves its result unchanged, and a *)
(* stream of operator tokens only gives a null expression, no filters and  *)
(* empty keywords.                                                         *)
(***************************************************************************)
C8_DanglingOperator ==
    (Returned /\ Len(tokens) > 0) =>
        /\ IsOperator(tokens[Len(tokens)]) =>
               parse(SubSeq(tokens, 1, Len(tokens) - 1)) = result
        /\ \A op \in {"and", "or", "not"} :
               parse(Append(tokens, [type |-> op])) = result
        /\ (\A i \in 1..Len(tokens) : IsOperator(tokens[i])) => result = EmptyQuery

\* an Or was built although the stream ends in NOT
C8_Witness ==
    /\ pc = "returned"
    /\ Len(tokens) = 4
    /\ tokens[4].type = "not"
    /\ result.filterExpression.type = "or"

(***************************************************************************)
(* C9: implicit AND equals explicit AND: putting an AND token between a    *)
(* Field or ) token and a directly following Field, NOT or ( token does    *)
(* not change the returned keywords, filters or expression.                *)
(***************************************************************************)
C9_ImplicitAnd ==
    Returned =>
        \A i \in 1..(Len(tokens) - 1) :
            (/\ tokens[i].type \in {"field", "rparen"}
             /\ tokens[i + 1].type \in {"field", "not", "lparen"}) =>
                parse(InsertAfter(tokens, i, [type |-> "and"])) = result

\* an implicit AND at the right of an OR, and one after a closing parenthesis
C9_Witness ==
    /\ pc = "returned"
    /\ \E i \in 2..(Len(tokens) - 1) :
           /\ tokens[i - 1].type = "or"
           /\ Resolves(tokens[i])
           /\ Resolves(tokens[i + 1])
    /\ result.filterExpression.type = "or"
    /\ result.filterExpression.right.type = "and"

(***************************************************************************)
(* Reading a compiled filter string back, the way a filter engine would.   *)
(* The atoms are the renderings of the leaves; NOT binds tightest and      *)
(* applies to the primary after it; of AND and OR the reader is told which *)
(* binds tighter.  A routine returns the tree it read and the index of the *)
(* next word; Unreadable when the words are no expression.                 *)
(***************************************************************************)
Unreadable == [type |-> "unreadable"]

\* the text t stands in s at index p
StandsAt(s, p, t) == p + Len(t) - 1 <= Len(s) /\ SubSeq(s, p, p + Len(t) - 1) = t

\* the renderings of the leaves of an expression
Atoms(expr) == {filterToMeiliString(Leaves(expr)[i]) : i \in 1..Len(Leaves(expr))}

\* the words of a filter string: atoms, parentheses, AND, OR, NOT
RECURSIVE FilterWords(_, _, _)
FilterWords(s, p, atoms) ==
    IF p > Len(s) THEN <<>>
    ELSE IF Ch(s, p) = " " THEN FilterWords(s, p + 1, atoms)
    ELSE LET here == {a \in atoms : StandsAt(s, p, a)}
         IN  IF here # {}
             THEN LET a == CHOOSE x \in here : \A y \in here : Len(y) <= Len(x)
                  IN  <<[word |-> "atom", text |-> a]>>
                          \o FilterWords(s, p + Len(a), atoms)
             ELSE IF Ch(s, p) \in {"(", ")"}
             THEN <<[word |-> Ch(s, p)]>> \o FilterWords(s, p + 1, atoms)
             ELSE IF StandsAt(s, p, "AND")
             THEN <<[word |-> "AND"]>> \o FilterWords(s, p + 3, atoms)
             ELSE IF StandsAt(s, p, "OR")
             THEN <<[word |-> "OR"]>> \o FilterWords(s, p + 2, atoms)
             ELSE IF StandsAt(s, p, "NOT")
             THEN <<[word |-> "NOT"]>> \o FilterWords(s, p + 3, atoms)
             ELSE <<[word |-> "?"]>>

WordAt(ws, p) == IF p <= Len(ws) THEN ws[p].word ELSE "end"

Read(t, p) == [tree |-> t, next |-> p]

ReadNode(op, l, r) ==
    IF op = "AND" THEN [type |-> "and", left |-> l, right |-> r]
    ELSE [type |-> "or", left |-> l, right |-> r]

RECURSIVE ReadLoose(_, _, _), ReadLooseRest(_, _, _, _), ReadTight(_, _, _),
          ReadTightRest(_, _, _, _), ReadPrimary(_, _, _)

\* tight is the operator that binds tighter, "AND" or "OR"
ReadPrimary(ws, p, tight) ==
    IF WordAt(ws, p) = "atom" THEN Read([type |-> "atom", text |-> ws[p].text], p + 1)
    ELSE IF WordAt(ws, p) = "NOT"
    THEN LET x == ReadPrimary(ws, p + 1, tight)
         IN  IF x.tree = Unreadable THEN x
             ELSE Read([type |-> "not", operand |-> x.tree], x.next)
    ELSE IF WordAt(ws, p) = "("
    THEN LET x == ReadLoose(ws, p + 1, tight)
         IN  IF x.tree = Unreadable \/ WordAt(ws, x.next) # ")" THEN Read(Unreadable, p)
             ELSE Read(x.tree, x.next + 1)
    ELSE Read(Unreadable, p)

ReadTightRest(ws, p, tight, left) ==
    IF WordAt(ws, p) = tight
    THEN LET r == ReadPrimary(ws, p + 1, tight)
         IN  IF r.tree = Unreadable THEN r
             ELSE ReadTightRest(ws, r.next, tight, ReadNode(tight, left, r.tree))
    ELSE Read(left, p)

ReadTight(ws, p, tight) ==
    LET l == ReadPrimary(ws, p, tight)
    IN  IF l.tree = Unreadable THEN l ELSE ReadTightRest(ws, l.next, tight, l.tree)

ReadLooseRest(ws, p, tight, left) ==
    LET loose == IF tight = "AND" THEN "OR" ELSE "AND"
    IN  IF WordAt(ws, p) = loose
        THEN LET r == ReadTight(ws, p + 1, tight)
             IN  IF r.tree = Unreadable THEN r
                 ELSE ReadLooseRest(ws, r.next, tight, ReadNode(loose, left, r.tree))
        ELSE Read(left, p)

ReadLoose(ws, p, tight) ==
    LET l == ReadTight(ws, p, tight)
    IN  IF l.tree = Unreadable THEN l ELSE ReadLooseRest(ws, l.next, tight, l.tree)

\* the tree a reader with the given precedence takes the string for
ReadFilter(s, atoms, tight) ==
    LET ws == FilterWords(s, 1, atoms)
        x == ReadLoose(ws, 1, tight)
    IN  IF x.tree # Unreadable /\ x.next = Len(ws) + 1 THEN x.tree ELSE Unreadable

\* the truth value of a tree (an expression or a tree read back) when the
\* leaves have the truth values v gives their renderings
RECURSIVE Holds(_, _)
Holds(t, v) ==
    CASE t.type = "atom" -> v[t.text]
      [] t.type = "filter" -> v[filterToMeiliString(t.filter)]
      [] t.type = "not" -> ~Holds(t.operand, v)
      [] t.type = "and" -> Holds(t.left, v) /\ Holds(t.right, v)
      [] t.type = "or" -> Holds(t.left, v) \/ Holds(t.right, v)

\* read with the given precedence, the string is the boolean expression of expr
ReadsAs(s, expr, tight) ==
    LET t == ReadFilter(s, Atoms(expr), tight)
    IN  /\ t # Unreadable
        /\ \A v \in [Atoms(expr) -> BOOLEAN] : Holds(t, v) = Holds(expr, v)

\* no Or node of the expression has an And node as an operand
RECURSIVE NoAndUnderOr(_)
NoAndUnderOr(expr) ==
    CASE expr.type = "filter" -> TRUE
      [] expr.type = "not" -> NoAndUnderOr(expr.operand)
      [] expr.type = "and" -> NoAndUnderOr(expr.left) /\ NoAndUnderOr(expr.right)
      [] expr.type = "or" ->
            /\ expr.left.type # "and" /\ expr.right.type # "and"
            /\ NoAndUnderOr(expr.left) /\ NoAndUnderOr(expr.right)

\* the caller has compiled an expression
Compiled == pc = "done" /\ result.filterExpression # Null

(***************************************************************************)
(* C10 as stated: the grouping of the compiled string does not depend on   *)
(* the relative precedence of AND and OR: read with AND binding tighter    *)
(* and read with OR binding tighter, it is the boolean expression of the   *)
(* tree.                                                                   *)
(***************************************************************************)
C10_AnyPrecedence ==
    Compiled =>
        /\ ReadsAs(filterString, result.filterExpression, "AND")
        /\ ReadsAs(filterString, result.filterExpression, "OR")

(***************************************************************************)
(* C10 as amended: every Or is rendered inside its own parentheses, so     *)
(* read with AND binding tighter than OR the compiled string is the        *)
(* boolean expression of the tree; read with OR binding tighter than AND   *)
(* it is so whenever no Or node has an And node as an operand (an And      *)
(* operand of an Or is rendered without parentheses).                      *)
(***************************************************************************)
C10_OrParenthesised ==
    Compiled =>
        /\ ReadsAs(filterString, result.filterExpression, "AND")
        /\ NoAndUnderOr(result.filterExpression) =>
               ReadsAs(filterString, result.filterExpression, "OR")

\* an Or of three distinct leaves stands under an And and under a Not
C10_Witness ==
    /\ Compiled
    /\ result.filterExpression.type = "and"
    /\ result.filterExpression.left.type = "not"
    /\ result.filterExpression.left.operand.type = "or"
    /\ Cardinality(Atoms(result.filterExpression)) = 3
    /\ NoAndUnderOr(result.filterExpression)

(***************************************************************************)
(* Vocabulary for the renderings.                                          *)
(***************************************************************************)
\* the subtrees of an expression, the expression itself included
RECURSIVE Subtrees(_)
Subtrees(expr) ==
    CASE expr.type \in {"and", "or"} ->
            {expr} \cup Subtrees(expr.left) \cup Subtrees(expr.right)
      [] expr.type = "not" -> {expr} \cup Subtrees(expr.operand)
      [] OTHER -> {expr}

\* how many nodes of the given types the expression has
RECURSIVE NodeCount(_, _)
NodeCount(expr, types) ==
    (IF expr.type \in types THEN 1 ELSE 0)
        + CASE expr.type \in {"and", "or"} ->
                  NodeCount(expr.left, types) + NodeCount(expr.right, types)
            [] expr.type = "not" -> NodeCount(expr.operand, types)
            [] OTHER -> 0

\* how often the character c stands in s
CountChar(s, c) == Cardinality({i \in 1..Len(s) : Ch(s, i) = c})

\* how often c stands in the renderings of the leaves of the expression
RECURSIVE CountCharInLeaves(_, _)
CountCharInLeaves(expr, c) ==
    CASE expr.type \in {"and", "or"} ->
            CountCharInLeaves(expr.left, c) + CountCharInLeaves(expr.right, c)
      [] expr.type = "not" -> CountCharInLeaves(expr.operand, c)
      [] OTHER -> CountChar(filterToMeiliString(expr.filter), c)

\* the query of the end-to-end test and the filter string it expects
GroupedQuery == "(from:john OR to:john) AND has:attachment"
GroupedFilterString == "(from = \"john\" OR to = \"john\") AND hasAttachments = true"

(***************************************************************************)
(* C11: filterExpressionToMeiliString is defined on every tree the parser  *)
(* returns (every node is a filter, and, or or not node and every leaf has *)
(* an operator of OPERATOR_MAP) and renders each composite from the        *)
(* renderings of its operands: And(l,r) as `<l> AND <r>`, Or(l,r) as       *)
(* `(<l> OR <r>)`, Not(x) as `NOT (<x>)`; the only parentheses of the      *)
(* string outside the leaves are one pair for each Or and each Not; the    *)
(* parse of `(from:john OR to:john) AND has:attachment` compiles to        *)
(* `(from = "john" OR to = "john") AND hasAttachments = true`.             *)
(***************************************************************************)
C11_StructuralRendering ==
    Compiled =>
        LET expr == result.filterExpression
            str(t) == filterExpressionToMeiliString(t)
        IN  /\ \A t \in Subtrees(expr) :
                   /\ t.type \in {"filter", "and", "or", "not"}
                   /\ t.type = "filter" =>
                          /\ t.filter.operator \in DOMAIN OPERATOR_MAP
                          /\ str(t) = filterToMeiliString(t.filter)
                          /\ Len(str(t)) > 0
                   /\ t.type = "and" => str(t) = str(t.left) \o " AND " \o str(t.right)
                   /\ t.type = "or" =>
                          str(t) = "(" \o str(t.left) \o " OR " \o str(t.right) \o ")"
                   /\ t.type = "not" => str(t) = "NOT (" \o str(t.operand) \o ")"
            /\ filterString = str(expr)
            /\ CountChar(filterString, "(")
                   = NodeCount(expr, {"or", "not"}) + CountCharInLeaves(expr, "(")
            /\ CountChar(filterString, ")")
                   = NodeCount(expr, {"or", "not"}) + CountCharInLeaves(expr, ")")
            /\ input = GroupedQuery => filterString = GroupedFilterString

\* the end-to-end example has been compiled
C11_Witness ==
    /\ Compiled
    /\ input = GroupedQuery
    /\ filterString = GroupedFilterString
    /\ result.filterExpression.type = "and"
    /\ result.filterExpression.left.type = "or"

(***************************************************************************)
(* Vocabulary for the leaf renderings.                                     *)
(***************************************************************************)
\* the filters a compiler has rendered in this state
RenderedFilters ==
    IF pc = "listed" THEN {filterList[i] : i \in 1..Len(filterList)}
    ELSE IF pc = "done" THEN {result.filters[i] : i \in 1..Len(result.filters)}
    ELSE {}

\* the number a decimal text stands for; -1 when the text has no digits only
RECURSIVE DecimalValue(_)
DecimalValue(s) ==
    IF s = "" THEN 0
    ELSE LET last == Ch(s, Len(s))
             d == CHOOSE k \in 0..9 : Ch(DigitStr, k + 1) = last
             front == DecimalValue(SubSeq(s, 1, Len(s) - 1))
         IN  IF last \in CharsOf(DigitStr) /\ front >= 0 THEN 10 * front + d ELSE -1

\* a bare number text: an optional minus sign and digits
NumberValue(s) ==
    IF Ch(s, 1) = "-" THEN -DecimalValue(SubSeq(s, 2, Len(s))) ELSE DecimalValue(s)

IsNumberText(s) ==
    LET digits == IF Ch(s, 1) = "-" THEN SubSeq(s, 2, Len(s)) ELSE s
    IN  digits # "" /\ DecimalValue(digits) >= 0

\* the text with every backslash-quote pair read as the quote it stands for
RECURSIVE Unescape(_)
Unescape(s) ==
    IF s = "" THEN ""
    ELSE IF Ch(s, 1) = "\\" /\ Ch(s, 2) = "\""
    THEN "\"" \o Unescape(SubSeq(s, 3, Len(s)))
    ELSE Ch(s, 1) \o Unescape(SubSeq(s, 2, Len(s)))

\* the operator symbols as the documentation lists them
OperatorSymbol(op) ==
    CASE op = "eq" -> "="
      [] op = "lt" -> "<"
      [] op = "gt" -> ">"
      [] op = "lte" -> "<="
      [] op = "gte" -> ">="

\* the rendering of the value, the text after `<field> <op> `
ValueText(f) ==
    LET s == filterToMeiliString(f)
        n == Len(f.field) + Len(OperatorSymbol(f.operator)) + 2
    IN  SubSeq(s, n + 1, Len(s))

\* the test's filter with a quoted word in its value
QuotedSubject == Filter("subject", "eq", [string |-> "say \"hello\""])

(***************************************************************************)
(* C12: a leaf renders as `<field> <op> <value>` with eq, lt, gt, lte, gte *)
(* rendered as =, <, >, <=, >=; a boolean value renders as true or false   *)
(* and a number as its bare decimal text; a string value stands between    *)
(* double quotes, every double quote inside it is preceded by a backslash, *)
(* and reading each backslash-quote pair as a quote gives the value back;  *)
(* the value `say "hello"` on subject gives `subject = "say \"hello\""`.   *)
(***************************************************************************)
C12_LeafRendering ==
    /\ \A f \in RenderedFilters :
           LET s == filterToMeiliString(f)
               head == f.field \o " " \o OperatorSymbol(f.operator) \o " "
               v == ValueText(f)
               inner == SubSeq(v, 2, Len(v) - 1)
           IN  /\ SubSeq(s, 1, Len(head)) = head
               /\ s = head \o v
               /\ "boolean" \in DOMAIN f.value =>
                      v = IF f.value.boolean THEN "true" ELSE "false"
               /\ "number" \in DOMAIN f.value =>
                      IsNumberText(v) /\ NumberValue(v) = f.value.number
               /\ "string" \in DOMAIN f.value =>
                      /\ Len(v) >= 2 /\ Ch(v, 1) = "\"" /\ Ch(v, Len(v)) = "\""
                      /\ \A i \in 1..Len(inner) :
                             Ch(inner, i) = "\"" => Ch(inner, i - 1) = "\\"
                      /\ Unescape(inner) = f.value.string
    /\ QuotedSubject \in RenderedFilters =>
           filterToMeiliString(QuotedSubject) = "subject = \"say \\\"hello\\\"\""

\* a string value with quotes and a number under gt have been rendered from
\* a list, or a parsed value with a quote and a negative timestamp compiled
C12_Witness ==
    \/ /\ pc = "listed"
       /\ filterList = <<QuotedSubject, Filter("timestamp", "gt", [number |-> 1000])>>
       /\ filterString = "subject = \"say \\\"hello\\\"\" AND timestamp > 1000"
    \/ /\ pc = "done"
       /\ input = "subject:a\"b before:1969-12-31"
       /\ filterString = "subject = \"a\\\"b\" AND timestamp < -86400000"

(***************************************************************************)
(* Vocabulary for the field resolver.                                      *)
(***************************************************************************)
\* the token list exists: the parser has been constructed
Tokenized == pc \in {"parse", "returned", "done"} /\ ~(input = "" \/ IsBlank(input))

\* the alias table as the documentation lists it
AliasNames == {"from", "to", "cc", "bcc", "subject", "in", "tag", "folder", "path"}

AliasOf(name) ==
    CASE name = "in" -> "ingestionSourceId"
      [] name = "tag" -> "tags"
      [] name = "folder" -> "path"
      [] OTHER -> name

\* the five resolution rules in their order
RuleFilter(name, value) ==
    LET lower == toLowerCase(name)
        date == DateGetTime(value)
    IN  IF lower = "has" /\ toLowerCase(value) = "attachment"
        THEN Filter("hasAttachments", "eq", [boolean |-> TRUE])
        ELSE IF lower = "before"
        THEN (IF date.isNaN THEN NoFilter
              ELSE Filter("timestamp", "lt", [number |-> date.time]))
        ELSE IF lower = "after"
        THEN (IF date.isNaN THEN NoFilter
              ELSE Filter("timestamp", "gte", [number |-> date.time]))
        ELSE IF lower \in AliasNames
        THEN Filter(AliasOf(lower), "eq", [string |-> value])
        ELSE NoFilter

\* the field tokens of the stream
FieldTokens == {tokens[i] : i \in {j \in 1..Len(tokens) : tokens[j].type = "field"}}

(***************************************************************************)
(* C13: fieldTokenToFilter(name, value) follows the five rules in order,   *)
(* the name compared case-insensitively: has with the value attachment     *)
(* (any case) gives {hasAttachments, eq, true}; before and after give      *)
(* {timestamp, lt / gte, epoch milliseconds} when the value parses as a    *)
(* date and no filter otherwise; a name of the alias table gives {mapped   *)
(* field, eq, value} with the value unchanged; any other name gives no     *)
(* filter.                                                                 *)
(***************************************************************************)
C13_ResolverRules ==
    Tokenized =>
        \A tok \in FieldTokens :
            fieldTokenToFilter(tok.field, tok.value) = RuleFilter(tok.field, tok.value)

\* the closed set of filter fields
QueryFilterFields ==
    {"from", "to", "cc", "bcc", "subject", "hasAttachments", "timestamp",
     "ingestionSourceId", "tags", "path"}

(***************************************************************************)
(* C14: every filter parseSearchQuery returns has its field in the closed  *)
(* set of filter fields, its operator among eq, lt, gte, and a value of    *)
(* the type of its field: the boolean true exactly for hasAttachments, a   *)
(* number exactly for timestamp, a string for every other field.           *)
(***************************************************************************)
C14_ClosedFilters ==
    Returned =>
        \A i \in 1..Len(result.filters) :
            LET f == result.filters[i]
            IN  /\ f.field \in QueryFilterFields
                /\ f.operator \in {"eq", "lt", "gte"}
                /\ f.field = "hasAttachments" <=> f.value = [boolean |-> TRUE]
                /\ f.field = "timestamp" <=> DOMAIN f.value = {"number"}
                /\ f.field \notin {"hasAttachments", "timestamp"}
                       => DOMAIN f.value = {"string"}

(***************************************************************************)
(* Vocabulary for the keywords.                                            *)
(***************************************************************************)
\* what a token contributes to the keywords: nothing, or one text
KeywordTextOf(tok) ==
    IF tok.type = "keyword" THEN <<tok.value>>
    ELSE IF tok.type = "quoted" THEN <<"\"" \o tok.value \o "\"">>
    ELSE IF Unresolved(tok) THEN <<tok.field \o ":" \o tok.value>>
    ELSE <<>>

\* the contributions of the tokens in stream order
RECURSIVE KeywordTexts(_)
KeywordTexts(toks) ==
    IF Len(toks) = 0 THEN <<>>
    ELSE KeywordTextOf(Head(toks)) \o KeywordTexts(Tail(toks))

\* the texts with one space between neighbours
RECURSIVE SpaceJoined(_)
SpaceJoined(texts) ==
    IF Len(texts) = 0 THEN ""
    ELSE IF Len(texts) = 1 THEN texts[1]
    ELSE texts[1] \o " " \o SpaceJoined(Tail(texts))

(***************************************************************************)
(* C15: the returned keywords string is the single-space join, in token    *)
(* order, of the text of each Keyword token, the text of each Quoted token *)
(* back in double quotes, and name:value of each Field token that fails    *)
(* resolution; resolved Field tokens, operator tokens and parentheses      *)
(* contribute nothing.                                                     *)
(***************************************************************************)
C15_KeywordsJoin ==
    (Returned /\ Tokenized) => result.keywords = SpaceJoined(KeywordTexts(tokens))

\* keywords from a keyword, a quoted phrase and an unresolved field, with a
\* resolved field, an operator in lower case and a parenthesis between them
C15_Witness ==
    /\ Returned /\ Tokenized
    /\ \E i, j, k \in 1..Len(tokens) :
           /\ tokens[i].type = "quoted" /\ Unresolved(tokens[j])
           /\ tokens[k].type = "keyword"
    /\ \E i \in 1..Len(tokens) : Resolves(tokens[i])
    /\ Len(keywordParts) = 3
    /\ result.keywords = SpaceJoined(KeywordTexts(tokens))

(***************************************************************************)
(* Vocabulary for the operator words.                                      *)
(***************************************************************************)
OperatorWords == {"and", "or", "not"}

\* the maximal runs of non-space characters of s from index p on
RECURSIVE WordsFrom(_, _)
WordsFrom(s, p) ==
    IF p > Len(s) THEN <<>>
    ELSE IF Ch(s, p) \in SpaceChars THEN WordsFrom(s, p + 1)
    ELSE LET rest == {q \in p..Len(s) : Ch(s, q + 1) \in SpaceChars \/ q = Len(s)}
             last == CHOOSE q \in rest : \A r \in rest : q <= r
         IN  <<SubSeq(s, p, last)>> \o WordsFrom(s, last + 1)

\* the text has no quote and no parenthesis: its tokens are its words
PlainText(s) == \A i \in 1..Len(s) : Ch(s, i) \notin {"\"", "(", ")"}

\* a word is bare when it is no field form: it has no colon inside
BareWord(w) == \A i \in 1..Len(w) : Ch(w, i) # ":"

\* queries with an operator word inside a quoted phrase, as a field name and
\* as a field value, between two filters
OperatorWordInside ==
    {"from:a \"or\" to:b", "from:a or:x to:b", "from:a x:or to:b",
     "from:a and:\"not\" to:b"}

(***************************************************************************)
(* C16: a bare word becomes an and/or/not operator token if and only if it *)
(* equals and, or or not compared case-insensitively, and then it becomes  *)
(* the token of that word; `from:john or from:jane` parses to the same Or  *)
(* tree as `from:john OR from:jane`; an operator word inside a quoted      *)
(* phrase or as the name or the value of a field token gives no operator   *)
(* token.                                                                  *)
(***************************************************************************)
C16_OperatorWords ==
    Tokenized =>
        LET texts == TokenTexts(input)
            words == WordsFrom(input, 1)
        IN  /\ Len(texts) = Len(tokens)
            /\ \A i \in 1..Len(tokens) :
                   /\ IsOperator(tokens[i]) <=> toLowerCase(texts[i]) \in OperatorWords
                   /\ IsOperator(tokens[i]) => tokens[i] = [type |-> toLowerCase(texts[i])]
            /\ PlainText(input) =>
                   /\ Len(words) = Len(tokens)
                   /\ \A i \in 1..Len(words) :
                          /\ IsOperator(tokens[i])
                                 <=> toLowerCase(words[i]) \in OperatorWords
                          /\ (BareWord(words[i]) /\ ~IsOperator(tokens[i]))
                                 => tokens[i] = [type |-> "keyword", value |-> words[i]]
            /\ input \in OperatorWordInside =>
                   /\ \A i \in 1..Len(tokens) : ~IsOperator(tokens[i])
                   /\ Len(tokens) = 3
            /\ (Returned /\ input = "from:john or from:jane") =>
                   /\ result.filterExpression.type = "or"
                   /\ result = parseSearchQuery("from:john OR from:jane")

\* the lower-case or between two filters has given the Or tree
C16_Witness ==
    /\ Returned
    /\ input = "from:john or from:jane"
    /\ tokens[2] = [type |-> "or"]
    /\ result.filterExpression.type = "or"

(***************************************************************************)
(* Vocabulary for the list compiler.                                       *)
(***************************************************************************)
\* compileLeaf(f1) + " AND " + ... + " AND " + compileLeaf(fn)
RECURSIVE AndJoinedLeaves(_)
AndJoinedLeaves(fs) ==
    IF Len(fs) = 1 THEN filterToMeiliString(fs[1])
    ELSE filterToMeiliString(fs[1]) \o " AND " \o AndJoinedLeaves(Tail(fs))

\* the expression is a leaf or Ands of leaves nested to the left
RECURSIVE IsAndChain(_)
IsAndChain(expr) ==
    \/ expr.type = "filter"
    \/ expr.type = "and" /\ expr.right.type = "filter" /\ IsAndChain(expr.left)

(***************************************************************************)
(* C17: filtersToMeiliString returns the empty string for the empty list   *)
(* and otherwise the renderings of the filters, in list order, joined by   *)
(* ` AND `; the rendering of a filter is the one the tree compiler gives   *)
(* the leaf, so for a parsed query whose tree is a chain of Ands of leaves *)
(* the list compiler applied to the returned filters gives the string the  *)
(* tree compiler gives.                                                    *)
(***************************************************************************)
C17_ListRendering ==
    /\ pc = "listed" =>
           /\ filterList = <<>> => filterString = ""
           /\ filterList # <<>> => filterString = AndJoinedLeaves(filterList)
           /\ Len(filterList) = 1 =>
                  filterString = filterExpressionToMeiliString(Leaf(filterList[1]))
           /\ Len(filterList) = 2 =>
                  filterString = filterExpressionToMeiliString(
                                     And(Leaf(filterList[1]), Leaf(filterList[2])))
    /\ (Compiled /\ IsAndChain(result.filterExpression)) =>
           filtersToMeiliString(result.filters) = filterString

\* the list of the test: a string filter and a numeric one
C17_Witness ==
    /\ pc = "listed"
    /\ filterList = <<Filter("from", "eq", [string |-> "john"]),
                      Filter("timestamp", "lt", [number |-> 1704067200])>>
    /\ filterString = "from = \"john\" AND timestamp < 1704067200"

\* the input is empty or has whitespace only
OnlyWhitespace(s) == \A i \in 1..Len(s) : Ch(s, i) \in {" ", "\t", "\n"}

(***************************************************************************)
(* C18: for the empty string and for every input of whitespace only,       *)
(* parseSearchQuery returns keywords = '', filters = [] and                *)
(* filterExpression = null.                                                *)
(***************************************************************************)
C18_EmptyInput ==
    (Returned /\ OnlyWhitespace(input)) =>
        /\ result.keywords = ""
        /\ result.filters = <<>>
        /\ result.filterExpression = [type |-> "null"]

\* a call with tabs, a newline and a space has returned the empty query
C18_Witness ==
    /\ pc = "returned"
    /\ input = "\t\n "
    /\ result = [keywords |-> "", filters |-> <<>>, filterExpression |-> [type |-> "null"]]

\* the Keyword token that carries the text name:value of a Field token
AsKeyword(tok) == [type |-> "keyword", value |-> tok.field \o ":" \o tok.value]

(***************************************************************************)
(* C19: an unresolved field token behaves exactly like a search term: in   *)
(* any token stream, replacing a Field token that fails resolution by the  *)
(* Keyword token with the text name:value gives the same keywords, the     *)
(* same filters and the same expression.                                   *)
(***************************************************************************)
C19_UnresolvedAsKeyword ==
    (Returned /\ Tokenized) =>
        \A i \in 1..Len(tokens) :
            Unresolved(tokens[i]) =>
                parse([tokens EXCEPT ![i] = AsKeyword(tokens[i])]) = result

\* the stream has no parenthesis token
NoParens(toks) == \A i \in 1..Len(toks) : toks[i].type \notin {"lparen", "rparen"}

\* no And has an And as its right child, no Or has an Or as its right child
LeftAssociative(expr) ==
    \A t \in Subtrees(expr) :
        /\ t.type = "and" => t.right.type # "and"
        /\ t.type = "or" => t.right.type # "or"

(***************************************************************************)
(* C20: for every token stream without parentheses the returned tree is    *)
(* left-associative for both operators: no And node has an And node as its *)
(* right child and no Or node has an Or node as its right child, also when *)
(* the tree is put together from several invocations of the driver that    *)
(* keywords separate.                                                      *)
(***************************************************************************)
C20_LeftAssociative ==
    (Returned /\ Tokenized /\ NoParens(tokens)) =>
        LeftAssociative(result.filterExpression)

\* the indexes of the Field tokens of the stream
FieldIndexes(toks) == {i \in 1..Len(toks) : toks[i].type = "field"}

(***************************************************************************)
(* C21: every Field token is accounted for exactly once and in order: the  *)
(* filters list is the sequence of the filters of the Field tokens that    *)
(* resolve, in stream order; the leaves of the expression are the same     *)
(* sequence; the entries of the keyword accumulator are the contributions  *)
(* of the Keyword, Quoted and unresolved Field tokens in stream order; so  *)
(* a Field token gives one leaf or one name:value entry, never both and    *)
(* never neither.                                                          *)
(***************************************************************************)
C21_FieldTokensAccounted ==
    (Returned /\ Tokenized) =>
        LET resolved == {i \in FieldIndexes(tokens) : Resolves(tokens[i])}
            failed == {i \in FieldIndexes(tokens) : Unresolved(tokens[i])}
            others == {i \in 1..Len(tokens) : tokens[i].type \in {"keyword", "quoted"}}
        IN  /\ result.filters = ResolvedFilters(tokens)
            /\ Leaves(result.filterExpression) = ResolvedFilters(tokens)
            /\ keywordParts = KeywordTexts(tokens)
            /\ Len(result.filters) = Cardinality(resolved)
            /\ Len(keywordParts) = Cardinality(failed) + Cardinality(others)
            /\ resolved \cap failed = {}
            /\ resolved \cup failed = FieldIndexes(tokens)

\* resolved and unresolved fields inside and outside a group, with an
\* operator and a keyword between them
C21_Witness ==
    /\ Returned /\ Tokenized
    /\ \E i, j \in FieldIndexes(tokens) : Resolves(tokens[i]) /\ Unresolved(tokens[j])
    /\ \E i, j, k \in 1..Len(tokens) :
           /\ tokens[i].type = "lparen" /\ tokens[j].type = "or"
           /\ tokens[k].type = "keyword"
    /\ Len(result.filters) = 1
    /\ Len(keywordParts) = 2

\* And(...And(And(e1, e2), e3)..., en), built from the last expression back
RECURSIVE AndFold(_)
AndFold(exprs) ==
    IF Len(exprs) = 1 THEN exprs[1]
    ELSE [type |-> "and",
          left |-> AndFold(SubSeq(exprs, 1, Len(exprs) - 1)),
          right |-> exprs[Len(exprs)]]

(***************************************************************************)
(* C22: the expressions the driver collected from its successive or_expr   *)
(* invocations are non-null; with more than one the returned expression is *)
(* their And-fold in order of appearance, And(...And(And(e1,e2),e3)...,en),*)
(* with exactly one it is that expression, with none it is null.           *)
(***************************************************************************)
C22_DriverAndFold ==
    (Returned /\ Tokenized) =>
        LET n == Len(filterExpressions)
        IN  /\ \A i \in 1..n : filterExpressions[i] # Null
            /\ n = 0 => result.filterExpression = Null
            /\ n = 1 => result.filterExpression = filterExpressions[1]
            /\ n > 1 => result.filterExpression = AndFold(filterExpressions)
            /\ n > 1 => /\ result.filterExpression.type = "and"
                        /\ result.filterExpression.right = filterExpressions[n]

\* three expressions, one of them an And itself, folded to the left
C22_Witness ==
    /\ Returned /\ Tokenized
    /\ Len(filterExpressions) = 3
    /\ filterExpressions[3].type = "and"
    /\ result.filterExpression
           = And(And(filterExpressions[1], filterExpressions[2]), filterExpressions[3])

\* the cursor values 0, 1, ..., n - 1 in order
CursorValues(n) == [k \in 1..n |-> k - 1]

(***************************************************************************)
(* C23: the cursor never backtracks: in every reachable state              *)
(* 0 <= pos <= tokens.length; the tokens taken so far were taken at the    *)
(* cursor values 0, 1, ..., pos - 1 in this order, so every advance moved  *)
(* the cursor by exactly one and every token before the cursor was taken   *)
(* exactly once, in stream order; an or_expr invocation takes the tokens   *)
(* from the cursor to where it leaves the cursor; when the call returns    *)
(* every token of the stream has been taken.                               *)
(***************************************************************************)
C23_CursorNeverBacktracks ==
    /\ 0 <= pos /\ pos <= Len(tokens)
    /\ consumed = CursorValues(pos)
    /\ (pc = "parse" /\ pos < Len(tokens)) =>
           LET r == tryParseExpression(tokens, parser)
           IN  /\ r.ps.pos >= pos
               /\ SubSeq(r.ps.consumed, 1, pos) = consumed
               /\ r.ps.consumed = CursorValues(r.ps.pos)
    /\ (Returned /\ Tokenized) => consumed = CursorValues(Len(tokens))

\* a stream with a group, operators, a keyword and a stray parenthesis has
\* been taken token by token
C23_Witness ==
    /\ Returned /\ Tokenized
    /\ Len(tokens) >= 4
    /\ consumed = CursorValues(Len(tokens))
    /\ \E i, j, k \in 1..Len(tokens) :
           /\ tokens[i].type = "lparen" /\ tokens[j].type = "or"
           /\ tokens[k].type = "rparen"

(***************************************************************************)
(* Vocabulary for the token boundaries.                                    *)
(***************************************************************************)
\* the first and last index of the text of each token
RECURSIVE TokenSpansFrom(_, _)
TokenSpansFrom(s, p) ==
    IF p > Len(s) THEN <<>>
    ELSE LET m == tokenRegex(s, p)
         IN  IF m.matched
             THEN <<[first |-> p, last |-> m.last]>> \o TokenSpansFrom(s, m.last + 1)
             ELSE TokenSpansFrom(s, p + 1)

TokenSpans(s) == TokenSpansFrom(s, 1)

HasParen(s) == \E i \in 1..Len(s) : Ch(s, i) \in {"(", ")"}

\* the token was written in a quoted form: "phrase" or name:"value"
QuotedForm(tok, text) ==
    \/ tok.type = "quoted" /\ text = "\"" \o tok.value \o "\""
    \/ tok.type = "field" /\ text = tok.field \o ":\"" \o tok.value \o "\""

(***************************************************************************)
(* C24: the tokenizer gives a token list for every input; the texts of the *)
(* tokens follow one another without overlap, every character that is no   *)
(* whitespace lies in the text of exactly one token; a parenthesis that is *)
(* not inside a token written in a quoted form is a token of its own, an   *)
(* LParen or RParen, whatever stands next to it; no bare word and no       *)
(* unquoted field value contains a parenthesis; `from:john)` gives         *)
(* Field(from, john) followed by RParen.                                   *)
(***************************************************************************)
C24_ParenthesesApart ==
    Tokenized =>
        LET spans == TokenSpans(input)
            n == Len(spans)
            text(i) == SubSeq(input, spans[i].first, spans[i].last)
        IN  /\ Len(tokens) = n
            /\ \A i \in 1..n :
                   /\ 1 <= spans[i].first /\ spans[i].first <= spans[i].last
                   /\ spans[i].last <= Len(input)
                   /\ i < n => spans[i].last < spans[i + 1].first
            /\ \A p \in 1..Len(input) :
                   Ch(input, p) \notin SpaceChars =>
                       Cardinality({i \in 1..n : spans[i].first <= p
                                                    /\ p <= spans[i].last}) = 1
            /\ \A i \in 1..n :
                   /\ text(i) = "(" <=> tokens[i] = [type |-> "lparen"]
                   /\ text(i) = ")" <=> tokens[i] = [type |-> "rparen"]
                   /\ HasParen(text(i)) =>
                          \/ text(i) \in {"(", ")"}
                          \/ QuotedForm(tokens[i], text(i))
                   /\ tokens[i].type = "keyword" => ~HasParen(tokens[i].value)
                   /\ (tokens[i].type = "field" /\ ~QuotedForm(tokens[i], text(i)))
                          => ~HasParen(tokens[i].value)
            /\ input = "from:john)" =>
                   tokens = <<[type |-> "field", field |-> "from", value |-> "john"],
                              [type |-> "rparen"]>>

\* parentheses next to a field value, and parentheses kept inside quoted forms
C24_Witness ==
    /\ Tokenized
    /\ \/ /\ input = "from:john)"
          /\ tokens[2] = [type |-> "rparen"]
       \/ /\ input = "x:\"a(b\" \"c)d\""
          /\ tokens = <<[type |-> "field", field |-> "x", value |-> "a(b"],
                        [type |-> "quoted", value |-> "c)d"]>>

\* the stream without its Keyword and Quoted tokens
RECURSIVE WithoutKeywords(_)
WithoutKeywords(toks) ==
    IF Len(toks) = 0 THEN <<>>
    ELSE (IF Head(toks).type \in {"keyword", "quoted"} THEN <<>> ELSE <<Head(toks)>>)
             \o WithoutKeywords(Tail(toks))

(***************************************************************************)
(* C26: keywords are no part of the boolean grammar: for every token       *)
(* stream, deleting all Keyword and Quoted tokens leaves the returned      *)
(* filters and the returned expression unchanged; `from:a invoice OR       *)
(* from:b` gives the expression of `from:a OR from:b`.                     *)
(***************************************************************************)
C26_KeywordsTransparent ==
    (Returned /\ Tokenized) =>
        LET bare == parse(WithoutKeywords(tokens))
        IN  /\ bare.filters = result.filters
            /\ bare.filterExpression = result.filterExpression

\* the pairs <<i, j>> where the ) at j closes the ( at i, its nearest open (
MatchedPairs(toks) ==
    {pr \in (1..Len(toks)) \X (1..Len(toks)) :
        /\ pr[1] < pr[2]
        /\ toks[pr[1]].type = "lparen"
        /\ toks[pr[2]].type = "rparen"
        /\ OpenAfter(toks, pr[2]) = OpenAfter(toks, pr[1] - 1)
        /\ \A k \in pr[1]..(pr[2] - 1) : OpenAfter(toks, k) > OpenAfter(toks, pr[1] - 1)}

\* the filters of the Field tokens strictly between positions i and j
GroupFilters(toks, i, j) == ResolvedFilters(SubSeq(toks, i + 1, j - 1))

(***************************************************************************)
(* C27: for every matched pair ( ... ) of the token stream, the filters of *)
(* the Field tokens between the pair are exactly the leaves of one subtree *)
(* of the returned expression, and a NOT standing before the ( negates     *)
(* exactly them: some Not node has exactly these leaves; whether the group *)
(* holds keywords, unresolved fields or a dangling operator.               *)
(***************************************************************************)
C27_GroupsRespected ==
    (Returned /\ Tokenized) =>
        \A pr \in MatchedPairs(tokens) :
            LET group == GroupFilters(tokens, pr[1], pr[2])
                trees == Subtrees(result.filterExpression)
            IN  group # <<>> =>
                    /\ \E t \in trees : Leaves(t) = group
                    /\ (pr[1] > 1 /\ tokens[pr[1] - 1].type = "not") =>
                           \E t \in trees : t.type = "not" /\ Leaves(t) = group

(***************************************************************************)
(* Vocabulary for string literals read as the filter language reads them:  *)
(* a backslash takes the character after it literally, and the first       *)
(* double quote not taken by a backslash ends the literal.                 *)
(***************************************************************************)
\* the first position from p on that holds one of the characters; 0 if none
NextOf(s, p, chars) ==
    LET at == {q \in p..Len(s) : Ch(s, q) \in chars}
    IN  IF at = {} THEN 0 ELSE CHOOSE q \in at : \A r \in at : q <= r

\* the position of the quote that ends the literal whose text starts at p;
\* 0 when the literal is not terminated
RECURSIVE LiteralEnd(_, _)
LiteralEnd(s, p) ==
    LET q == NextOf(s, p, {"\\", "\""})
    IN  IF q = 0 THEN 0
        ELSE IF Ch(s, q) = "\\" THEN LiteralEnd(s, q + 2)
        ELSE q

\* the value a literal's text stands for: each backslash is dropped and the
\* character after it kept
RECURSIVE LiteralValue(_)
LiteralValue(s) ==
    IF s = "" THEN ""
    ELSE IF Ch(s, 1) = "\\" THEN Ch(s, 2) \o LiteralValue(SubSeq(s, 3, Len(s)))
    ELSE Ch(s, 1) \o LiteralValue(SubSeq(s, 2, Len(s)))

StringFilters == {f \in RenderedFilters : "string" \in DOMAIN f.value}

(***************************************************************************)
(* C28: a string-valued leaf renders as one well-formed, reversible        *)
(* literal: the first double quote after the opening one that no backslash *)
(* escapes is the closing one, un-escaping the text between them gives the *)
(* value back, and distinct values give distinct literals; also for values *)
(* with a backslash, a trailing backslash or a backslash before a quote.   *)
(***************************************************************************)
C28_ReversibleLiteral ==
    /\ \A f \in StringFilters :
           LET v == ValueText(f)
           IN  /\ Ch(v, 1) = "\""
               /\ LiteralEnd(v, 2) = Len(v)
               /\ LiteralValue(SubSeq(v, 2, Len(v) - 1)) = f.value.string
    /\ \A f, g \in StringFilters :
           ValueText(f) = ValueText(g) => f.value = g.value

(***************************************************************************)
(* Vocabulary for the final filter of SearchService.  The outline of a     *)
(* filter text is what stands outside every parenthesis, with each string  *)
(* literal shortened to "" and each parenthesised group to (); a text with *)
(* an unterminated literal or unbalanced parentheses has no outline.       *)
(***************************************************************************)
NoOutline == [ok |-> FALSE, text |-> ""]

OutlineCons(prefix, rest) ==
    IF rest.ok THEN [ok |-> TRUE, text |-> prefix \o rest.text] ELSE NoOutline

\* the outline of the text from p on, p standing inside depth parentheses
RECURSIVE OutlineFrom(_, _, _)
OutlineFrom(s, p, depth) ==
    LET q == NextOf(s, p, {"\"", "(", ")"})
        plain == IF depth > 0 THEN ""
                 ELSE IF q = 0 THEN SubSeq(s, p, Len(s)) ELSE SubSeq(s, p, q - 1)
    IN  IF q = 0 THEN (IF depth = 0 THEN [ok |-> TRUE, text |-> plain] ELSE NoOutline)
        ELSE IF Ch(s, q) = "\""
        THEN LET e == LiteralEnd(s, q + 1)
             IN  IF e = 0 THEN NoOutline
                 ELSE OutlineCons(plain \o (IF depth = 0 THEN "\"\"" ELSE ""),
                                  OutlineFrom(s, e + 1, depth))
        ELSE IF Ch(s, q) = "("
        THEN OutlineCons(plain \o (IF depth = 0 THEN "(" ELSE ""),
                         OutlineFrom(s, q + 1, depth + 1))
        ELSE IF depth = 0 THEN NoOutline
        ELSE OutlineCons(IF depth = 1 THEN ")" ELSE "", OutlineFrom(s, q + 1, depth - 1))

Outline(s) == OutlineFrom(s, 1, 0)

\* the word stands somewhere in the text
Contains(s, word) == \E p \in 1..Len(s) : StandsAt(s, p, word)

EndsWith(s, tail) == Len(s) >= Len(tail) /\ StandsAt(s, Len(s) - Len(tail) + 1, tail)

\* SearchService has built its final filter from a compiled expression
Searched == pc \in {"searched", "searchedAdvanced"} /\ result.filterExpression # Null

C29_MeaningPreserved ==
    Compiled =>
        \A t \in Subtrees(result.filterExpression) :
            ReadsAs(filterExpressionToMeiliString(t), t, "AND")

\* compiled: an Or whose left operand negates an And, over three leaves
C29_Witness ==
    /\ Compiled
    /\ result.filterExpression.type = "or"
    /\ result.filterExpression.left.type = "not"
    /\ result.filterExpression.left.operand.type = "and"
    /\ Cardinality(Atoms(result.filterExpression)) = 3
    /\ filterString = "(NOT (from = \"a\" AND to = \"b\") OR cc = \"c\")"

\* the expression is made of And and Leaf nodes only, in any nesting
OnlyAnds(expr) == expr # Null /\ NodeCount(expr, {"or", "not"}) = 0

(***************************************************************************)
(* C30: the two compiler entry points agree on conjunctions: for every     *)
(* expression made only of And and Leaf nodes, in any nesting,             *)
(* filterExpressionToMeiliString gives the string filtersToMeiliString     *)
(* gives for its leaves in order; so for a query whose expression has no   *)
(* Or and no Not, the compiled expression is filtersToMeiliString of the   *)
(* returned filters.                                                       *)
(***************************************************************************)
C30_EntryPointsAgree ==
    Compiled =>
        /\ \A t \in Subtrees(result.filterExpression) :
               OnlyAnds(t) =>
                   filterExpressionToMeiliString(t) = filtersToMeiliString(Leaves(t))
        /\ OnlyAnds(result.filterExpression) =>
               /\ result.filters = Leaves(result.filterExpression)
               /\ filterString = filtersToMeiliString(result.filters)

\* compiled: an And whose right operand is an And, from a parenthesised group
C30_Witness ==
    /\ Compiled
    /\ OnlyAnds(result.filterExpression)
    /\ result.filterExpression.type = "and"
    /\ result.filterExpression.right.type = "and"
    /\ \E i \in 1..Len(tokens) : tokens[i].type = "lparen"
    /\ Len(result.filters) = 3
    /\ filterString = filtersToMeiliString(result.filters)

====
